---- MODULE Spec2Model ----
(***************************************************************************)
(* Model of the single-socket OSC client (src/osc/client.rs), its lazy     *)
(* handle and the argument decoder (src/osc/response.rs).                  *)
(*                                                                         *)
(* Tasks call send / query / query_all / test_connection on handles.  A    *)
(* handle lazily creates one client (one bound UDP socket).  The remote    *)
(* peer answers a request by sending datagrams to the request's source     *)
(* port, at any later moment.                                              *)
(***************************************************************************)
EXTENDS Integers, Sequences, FiniteSets, TLC

\* ------------------------------------------------------------------ bounds
MaxCalls  == 2   \* operations invoked in one behaviour
MaxDgrams == 2   \* datagrams and socket errors that reach the clients
MaxArgs   == 2   \* arguments of a packet handed to the decoder alone

Tasks   == {1, 2}
Handles == {1, 2}
Ports   == {1, 2}

Ops == {"send", "query", "query_all", "test_connection"}

\* ------------------------------------------------------- OSC values (rosc)
OInt(n)   == [ty |-> "Int",    v |-> n]
OFloat(h) == [ty |-> "Float",  v |-> h]      \* h halves: the float h/2
OStr(s)   == [ty |-> "String", v |-> s]
OBool(b)  == [ty |-> "Bool",   v |-> b]
ONil      == [ty |-> "Nil",    v |-> 0]

Message(a) == [pk |-> "Message", args |-> a, content |-> <<>>]
Bundle(c)  == [pk |-> "Bundle",  args |-> <<>>, content |-> c]

\* Result values
Ok(v)   == [tag |-> "Ok",  err |-> "",  val |-> v]
Err(e)  == [tag |-> "Err", err |-> e,   val |-> 0]
NoRes   == [tag |-> "None", err |-> "", val |-> 0]

\* f32 -> i32 cast (`as i32`): truncation toward zero
TruncHalf(h) == IF h >= 0 THEN h \div 2 ELSE -((-h) \div 2)

\* Bytes on the wire: a well-formed encoding of a packet, or garbage.
Encode(p)  == [wf |-> TRUE,  pkt |-> p]
Garbage    == [wf |-> FALSE, pkt |-> Message(<<>>)]
decode_udp(b) == IF b.wf THEN Ok(b.pkt) ELSE Err("OscEncode")

\* ---------------------------------------------------- Argument decoder
\* A bundle scan that keeps the last message it sees instead of returning at
\* the first.
LastMessage(c) ==
    LET S == {i \in 1..Len(c) : c[i].pk = "Message"}
    IN IF S = {} THEN Err("InvalidResponse")
       ELSE Ok(c[CHOOSE i \in S : \A j \in S : j <= i].args)

RECURSIVE FirstMessage(_)
FirstMessage(c) ==
    IF c = <<>> THEN Err("InvalidResponse")
    ELSE IF Head(c).pk = "Message" THEN Ok(Head(c).args)
    ELSE FirstMessage(Tail(c))

FromOscArgs(p) ==
    IF p.pk = "Message" THEN Ok(p.args) ELSE FirstMessage(p.content)

\* index of the last argument of type ty, 0 if none
LastOf(args, ty) ==
    LET S == {i \in 1..Len(args) : args[i].ty = ty}
    IN IF S = {} THEN 0 ELSE CHOOSE i \in S : \A j \in S : j <= i

FirstAsInt(args) ==
    IF args = <<>> THEN Err("InvalidResponse")
    ELSE IF args[1].ty = "Int" THEN Ok(args[1].v)
    ELSE IF args[1].ty = "Float" THEN Ok(TruncHalf(args[1].v))
    ELSE Err("InvalidResponse")

\* index of the first argument of type ty, 0 if none
FirstOf(args, ty) ==
    LET S == {i \in 1..Len(args) : args[i].ty = ty}
    IN IF S = {} THEN 0 ELSE CHOOSE i \in S : \A j \in S : i <= j

\* An integer decoder that scans from the front: the first Int wins.
FromOscI32FirstInt(p) ==
    LET r == FromOscArgs(p) IN
    IF r.tag = "Err" THEN r
    ELSE LET args == r.val IN
         IF Len(args) = 1 THEN FirstAsInt(args)
         ELSE IF FirstOf(args, "Int") # 0 THEN Ok(args[FirstOf(args, "Int")].v)
         ELSE FirstAsInt(args)

FromOscI32(p) ==
    LET r == FromOscArgs(p) IN
    IF r.tag = "Err" THEN r
    ELSE LET args == r.val IN
         IF Len(args) = 1 THEN FirstAsInt(args)
         ELSE IF LastOf(args, "Int") # 0 THEN Ok(args[LastOf(args, "Int")].v)
         ELSE FirstAsInt(args)

\* i32 -> f32 cast (`as f32`), in halves: exact up to 2^24, beyond that the
\* nearest representable float, ties to the even mantissa.
RECURSIVE Ulp(_)
Ulp(a) == IF a < 16777216 THEN 1 ELSE 2 * Ulp(a \div 2)

RoundTiesEven(a, u) ==
    LET q == a \div u
        r == a % u
    IN IF 2 * r < u THEN q * u
       ELSE IF 2 * r > u THEN (q + 1) * u
       ELSE IF q % 2 = 0 THEN q * u ELSE (q + 1) * u

IntAsF32(v) ==
    LET a == IF v < 0 THEN -v ELSE v
        m == RoundTiesEven(a, Ulp(a))
    IN IF v < 0 THEN -(2 * m) ELSE 2 * m

FirstAsFloat(args) ==
    IF args = <<>> THEN Err("InvalidResponse")
    ELSE IF args[1].ty = "Float" THEN Ok(args[1].v)
    ELSE IF args[1].ty = "Int" THEN Ok(IntAsF32(args[1].v))
    ELSE Err("InvalidResponse")

\* A float decoder that scans from the front: the first Float wins.
FromOscF32FirstFloat(p) ==
    LET r == FromOscArgs(p) IN
    IF r.tag = "Err" THEN r
    ELSE LET args == r.val IN
         IF FirstOf(args, "Float") # 0 THEN Ok(args[FirstOf(args, "Float")].v)
         ELSE FirstAsFloat(args)

\* impl FromOsc for f32: the reverse scan returns at the last Float (a lone
\* Int is converted on the way), then the fallback to the first argument.
FromOscF32(p) ==
    LET r == FromOscArgs(p) IN
    IF r.tag = "Err" THEN r
    ELSE LET args == r.val IN
         IF LastOf(args, "Float") # 0 THEN Ok(args[LastOf(args, "Float")].v)
         ELSE IF Len(args) = 1 /\ args[1].ty = "Int" THEN Ok(IntAsF32(args[1].v))
         ELSE FirstAsFloat(args)

\* A string decoder that scans from the front: the first String wins.
FromOscStringFirst(p) ==
    LET r == FromOscArgs(p) IN
    IF r.tag = "Err" THEN r
    ELSE LET args == r.val IN
         IF FirstOf(args, "String") # 0 THEN Ok(args[FirstOf(args, "String")].v)
         ELSE Err("InvalidResponse")

\* impl FromOsc for String: the last String, an error without one.
FromOscString(p) ==
    LET r == FromOscArgs(p) IN
    IF r.tag = "Err" THEN r
    ELSE LET args == r.val IN
         IF LastOf(args, "String") # 0 THEN Ok(args[LastOf(args, "String")].v)
         ELSE Err("InvalidResponse")

\* A boolean decoder that scans from the end like the other decoders: the
\* last Bool or Int wins.
FromOscBoolLast(p) ==
    LET r == FromOscArgs(p) IN
    IF r.tag = "Err" THEN r
    ELSE LET args == r.val
             S == {i \in 1..Len(args) : args[i].ty \in {"Bool", "Int"}}
             k == CHOOSE i \in S : \A j \in S : j <= i
         IN IF S = {} THEN Err("InvalidResponse")
            ELSE IF args[k].ty = "Bool" THEN Ok(args[k].v)
            ELSE Ok(args[k].v # 0)

\* impl FromOsc for bool: only the first argument is looked at.
FromOscBool(p) ==
    LET r == FromOscArgs(p) IN
    IF r.tag = "Err" THEN r
    ELSE LET args == r.val IN
         IF args = <<>> THEN Err("InvalidResponse")
         ELSE IF args[1].ty = "Bool" THEN Ok(args[1].v)
         ELSE IF args[1].ty = "Int" THEN Ok(args[1].v # 0)
         ELSE Err("InvalidResponse")

\* The implementations of the trait FromOsc, by target type.
Targets == {"args", "f32", "i32", "String", "bool"}
FromOscAs(ty, p) ==
    CASE ty = "args"   -> FromOscArgs(p)
      [] ty = "f32"    -> FromOscF32(p)
      [] ty = "i32"    -> FromOscI32(p)
      [] ty = "String" -> FromOscString(p)
      [] ty = "bool"   -> FromOscBool(p)

\* --------------------------------------------------------------- state
VARIABLES
    hstate,     \* handle -> "none" | "live"
    cell,       \* handle -> client id held by its OnceCell, 0 when empty
    initBy,     \* handle -> task holding the cell's init permit, 0 if free
    used,       \* handle -> an operation has been invoked on it
    clients,    \* client id -> [port, owner]: one bound socket each
    queue,      \* client id -> receive queue of its socket
    ndeliv,     \* client id -> number of items ever put on its queue
    reqs,       \* request id -> [client, port]: request datagrams sent
    ncalls,     \* operations invoked so far
    pc,         \* task -> position in its current operation
    op,         \* task -> operation it runs
    hnd,        \* task -> handle the operation was invoked on
    cli,        \* task -> client returned by the accessor, 0 if none
    res,        \* task -> result returned by the operation
    responses,  \* task -> query_all's `responses` vector
    myreq,      \* task -> id of the request this call sent, 0 if none
    nsent,      \* task -> request datagrams this call has sent
    stale,      \* task -> seq of the items queued when the client op started
    flushSeq,   \* task -> ndeliv of the client when the flush ended, -1 before
    sendSeq,    \* task -> ndeliv of the client when the request left
    got,        \* task -> datagrams this call received after its send
    joined,     \* task -> the accessor waited for another task's init
    packet,     \* the packet handed to from_osc
    target,     \* the type from_osc was last asked for, "none" before
    decoded     \* what that from_osc returned

hvars == <<hstate, cell, initBy, used>>
nvars == <<clients, queue, ndeliv, reqs>>
tvars == <<pc, op, hnd, cli, res, responses, myreq, nsent, stale, flushSeq,
           sendSeq, got, joined>>
dvars == <<packet, target, decoded>>
vars  == <<hstate, cell, initBy, used, clients, queue, ndeliv, reqs, ncalls,
           pc, op, hnd, cli, res, responses, myreq, nsent, stale, flushSeq,
           sendSeq, got, joined, packet, target, decoded>>

ClientIds == 1..Len(clients)
UsedPorts == {clients[c].port : c \in ClientIds}

RECURSIVE SumSeq(_)
SumSeq(s) == IF s = <<>> THEN 0 ELSE Head(s) + SumSeq(Tail(s))
\* items that have reached the clients' sockets so far
Delivered == SumSeq(ndeliv)

\* What recv_from yields: the bytes of a datagram and the address it came
\* from (the remote endpoint or anybody else), or an error.
DgramFrom(n, r, b, s) ==
    [kind |-> "dgram", seq |-> n, req |-> r, bytes |-> b, src |-> s]
Dgram(n, r, b) == DgramFrom(n, r, b, "remote")
SockError(n, r) ==
    [kind |-> "err", seq |-> n, req |-> r, bytes |-> Garbage, src |-> "none"]

\* No handle, no client, no task inside an operation.
InitClient ==
    /\ hstate = [h \in Handles |-> "none"]
    /\ cell = [h \in Handles |-> 0]
    /\ initBy = [h \in Handles |-> 0]
    /\ used = [h \in Handles |-> FALSE]
    /\ clients = <<>>
    /\ queue = <<>>
    /\ ndeliv = <<>>
    /\ reqs = <<>>
    /\ ncalls = 0
    /\ pc = [t \in Tasks |-> "idle"]
    /\ op = [t \in Tasks |-> "send"]
    /\ hnd = [t \in Tasks |-> 1]
    /\ cli = [t \in Tasks |-> 0]
    /\ res = [t \in Tasks |-> NoRes]
    /\ responses = [t \in Tasks |-> <<>>]
    /\ myreq = [t \in Tasks |-> 0]
    /\ nsent = [t \in Tasks |-> 0]
    /\ stale = [t \in Tasks |-> {}]
    /\ flushSeq = [t \in Tasks |-> -1]
    /\ sendSeq = [t \in Tasks |-> 0]
    /\ got = [t \in Tasks |-> <<>>]
    /\ joined = [t \in Tasks |-> FALSE]

Init ==
    /\ InitClient
    /\ packet = Message(<<>>)
    /\ target = "none"
    /\ decoded = NoRes

\* ------------------------------------------------------------ the handle
\* The same with a client bound at once (an eager handle).
OscHandle_new_eager(h) ==
    /\ hstate[h] = "none"
    /\ \A g \in Handles : g < h => hstate[g] = "live"
    /\ hstate' = [hstate EXCEPT ![h] = "live"]
    /\ clients' = Append(clients, [port |-> Len(clients) + 1, owner |-> h])
    /\ queue' = Append(queue, <<>>)
    /\ ndeliv' = Append(ndeliv, 0)
    /\ cell' = [cell EXCEPT ![h] = Len(clients) + 1]
    /\ UNCHANGED <<initBy, used, ncalls, reqs>>
    /\ UNCHANGED tvars
    /\ UNCHANGED dvars

\* OscHandle::new: `inner` is an empty OnceCell, no client, no socket.
\* Handles are created in the order of their numbers.
OscHandle_new(h) ==
    /\ hstate[h] = "none"
    /\ \A g \in Handles : g < h => hstate[g] = "live"
    /\ hstate' = [hstate EXCEPT ![h] = "live"]
    /\ cell' = [cell EXCEPT ![h] = 0]
    /\ UNCHANGED <<initBy, used, ncalls>>
    /\ UNCHANGED nvars
    /\ UNCHANGED tvars
    /\ UNCHANGED dvars

\* Handles a task holds (a clone of): task 1 works on handle 1, task 2 on
\* a clone of handle 1 or on handle 2.
HandlesOf(t) == IF t = 1 THEN {1} ELSE Handles

\* A query that sends without flushing first.
FirstStepNoFlush(o) == "send"

\* A send that clears the receive buffer first, as the queries do.
FirstStepAlwaysFlush(o) == "flush"

\* First step of a client operation: send encodes and transmits at once,
\* query and query_all (and test_connection, a query) start with the flush.
FirstStep(o) == IF o = "send" THEN "send" ELSE "flush"

\* The task t has obtained client c from the accessor and enters the client
\* operation.
EnterOp(t, c, j) ==
    /\ cli' = [cli EXCEPT ![t] = c]
    /\ joined' = [joined EXCEPT ![t] = j]
    /\ stale' = [stale EXCEPT ![t] = {queue'[c][i].seq : i \in 1..Len(queue'[c])}]
    /\ pc' = [pc EXCEPT ![t] = FirstStep(op'[t])]

\* An accessor that never waits: every caller that finds the cell empty
\* runs the init closure.
AccessorPcNoPermit(h) == "binding"

\* State of the accessor for a task that finds the cell of h empty: it
\* takes the init permit if it is free and waits for it otherwise.
AccessorPc(h) == IF initBy[h] = 0 THEN "binding" ELSE "waiting"

\* An accessor that creates a client on every call instead of caching it.
NeverInitialized(h) == FALSE

\* OnceCell::initialized, the fast path of get_or_try_init.
Initialized(h) == cell[h] # 0

\* A task invokes an operation on a live handle; the operation starts with
\* OscHandle::client, i.e. OnceCell::get_or_try_init.
Call(t, h, o) ==
    /\ pc[t] \in {"idle", "done"}
    /\ ncalls < MaxCalls
    /\ hstate[h] = "live"
    /\ ncalls' = ncalls + 1
    /\ used' = [used EXCEPT ![h] = TRUE]
    /\ op' = [op EXCEPT ![t] = o]
    /\ hnd' = [hnd EXCEPT ![t] = h]
    /\ res' = [res EXCEPT ![t] = NoRes]
    /\ responses' = [responses EXCEPT ![t] = <<>>]
    /\ myreq' = [myreq EXCEPT ![t] = 0]
    /\ nsent' = [nsent EXCEPT ![t] = 0]
    /\ flushSeq' = [flushSeq EXCEPT ![t] = -1]
    /\ sendSeq' = [sendSeq EXCEPT ![t] = 0]
    /\ got' = [got EXCEPT ![t] = <<>>]
    /\ UNCHANGED <<hstate, cell>>
    /\ UNCHANGED nvars
    /\ IF Initialized(h)
       THEN /\ EnterOp(t, cell[h], FALSE)
            /\ UNCHANGED initBy
       ELSE /\ pc' = [pc EXCEPT ![t] = AccessorPc(h)]
            /\ initBy' = [initBy EXCEPT ![h] = IF AccessorPc(h) = "binding" THEN t ELSE @]
            /\ cli' = [cli EXCEPT ![t] = 0]
            /\ joined' = [joined EXCEPT ![t] = FALSE]
            /\ stale' = [stale EXCEPT ![t] = {}]
    /\ UNCHANGED dvars

\* A bind to one fixed port that several sockets may share.
BindFixed == {1}

\* A bind that may be given a port another socket holds.
BindAny == Ports

\* Port the OS gives to a socket bound to 127.0.0.1:0: one no socket holds.
\* Ports are interchangeable, so the lowest free one stands for any of them.
FreePorts == Ports \ UsedPorts
BindPorts == {p \in FreePorts : \A q \in FreePorts : p <= q}

\* OscClient::new succeeds inside the init closure: the cell is set.
BindOk(t) ==
    /\ pc[t] = "binding"
    /\ \E p \in BindPorts :
         /\ clients' = Append(clients, [port |-> p, owner |-> hnd[t]])
         /\ queue' = Append(queue, <<>>)
         /\ ndeliv' = Append(ndeliv, 0)
    /\ cell' = [cell EXCEPT ![hnd[t]] = Len(clients) + 1]
    /\ initBy' = [initBy EXCEPT ![hnd[t]] = 0]
    /\ UNCHANGED op
    /\ EnterOp(t, Len(clients) + 1, FALSE)
    /\ UNCHANGED <<hstate, used, reqs, ncalls>>
    /\ UNCHANGED <<hnd, res, responses, myreq, nsent, flushSeq, sendSeq, got>>
    /\ UNCHANGED dvars

\* A failed initialization that keeps the init permit: the handle is left
\* "initializing" for good.
BindFailKeepsPermit(t) ==
    /\ pc[t] = "binding"
    /\ res' = [res EXCEPT ![t] = Err("Network")]
    /\ pc' = [pc EXCEPT ![t] = "done"]
    /\ UNCHANGED <<hstate, cell, initBy, used, ncalls>>
    /\ UNCHANGED nvars
    /\ UNCHANGED <<op, hnd, cli, responses, myreq, nsent, stale, flushSeq,
                   sendSeq, got, joined>>
    /\ UNCHANGED dvars

\* OscClient::new fails (bind error): the permit is released, the cell stays
\* empty and the caller gets the error.
BindFail(t) ==
    /\ pc[t] = "binding"
    /\ initBy' = [initBy EXCEPT ![hnd[t]] = 0]
    /\ res' = [res EXCEPT ![t] = Err("Network")]
    /\ pc' = [pc EXCEPT ![t] = "done"]
    /\ UNCHANGED <<hstate, cell, used, ncalls>>
    /\ UNCHANGED nvars
    /\ UNCHANGED <<op, hnd, cli, responses, myreq, nsent, stale, flushSeq,
                   sendSeq, got, joined>>
    /\ UNCHANGED dvars

\* A task waiting for the permit is woken: the cell has been set meanwhile
\* (it joins the value) or the initializer failed (it takes the permit).
WakeInit(t) ==
    /\ pc[t] = "waiting"
    /\ UNCHANGED <<hstate, cell, used, ncalls>>
    /\ UNCHANGED nvars
    /\ UNCHANGED <<op, hnd, res, responses, myreq, nsent, flushSeq, sendSeq, got>>
    /\ \/ /\ cell[hnd[t]] # 0
          /\ EnterOp(t, cell[hnd[t]], TRUE)
          /\ UNCHANGED initBy
       \/ /\ cell[hnd[t]] = 0
          /\ initBy[hnd[t]] = 0
          /\ initBy' = [initBy EXCEPT ![hnd[t]] = t]
          /\ pc' = [pc EXCEPT ![t] = "binding"]
          /\ UNCHANGED <<cli, joined, stale>>
    /\ UNCHANGED dvars

\* ------------------------------------------------------------ the network
\* What reaches the client in answer to a request that came from port p: a
\* message carrying the sender's port as one Int, a well-formed packet that
\* holds no argument list (a bundle without a message), or bytes that are
\* no OSC packet.
PeerPayloads(p) ==
    {Encode(Message(<<OInt(p)>>)), Encode(Bundle(<<>>)), Garbage}

\* Sockets a datagram addressed to port p is delivered to.
BoundTo(p) == {c \in ClientIds : clients[c].port = p}

Enqueue(c, item) ==
    /\ queue' = [queue EXCEPT ![c] = Append(@, item)]
    /\ ndeliv' = [ndeliv EXCEPT ![c] = @ + 1]

\* The peer answers request r: one more datagram to the request's source
\* address becomes readable on the socket bound to that port.
PeerReply(r) ==
    /\ Delivered < MaxDgrams
    /\ \E c \in BoundTo(reqs[r].port), b \in PeerPayloads(reqs[r].port) :
          Enqueue(c, Dgram(ndeliv[c] + 1, r, b))
    /\ UNCHANGED <<clients, reqs, ncalls>>
    /\ UNCHANGED hvars
    /\ UNCHANGED tvars
    /\ UNCHANGED dvars

\* The OS has an error to report on the next receive of the socket that
\* sent request r.
SocketError(r) ==
    /\ Delivered < MaxDgrams
    /\ Enqueue(reqs[r].client, SockError(ndeliv[reqs[r].client] + 1, r))
    /\ UNCHANGED <<clients, reqs, ncalls>>
    /\ UNCHANGED hvars
    /\ UNCHANGED tvars
    /\ UNCHANGED dvars

\* What a sender other than the remote endpoint puts into a datagram for
\* port p: a reply like the peer's.
StrayPayloads(p) == {Encode(Message(<<OInt(p)>>))}

\* Some other process or host sends a datagram to the port of client c; it
\* answers no request.
StrayDatagram(c) ==
    /\ Delivered < MaxDgrams
    /\ \E b \in StrayPayloads(clients[c].port) :
          Enqueue(c, DgramFrom(ndeliv[c] + 1, 0, b, "other"))
    /\ UNCHANGED <<clients, reqs, ncalls>>
    /\ UNCHANGED hvars
    /\ UNCHANGED tvars
    /\ UNCHANGED dvars

\* ------------------------------------------------------------- the client
\* tokio::time::timeout(d, socket.recv_from(buf)): the receive is polled
\* first, so the timeout elapses only with nothing readable.
Elapsed ==
    [kind |-> "elapsed", seq |-> 0, req |-> 0, bytes |-> Garbage, src |-> "none"]
RecvOutcome(q) == IF q = <<>> THEN Elapsed ELSE Head(q)
AfterRecv(q)   == IF q = <<>> THEN q ELSE Tail(q)

\* The flush that stops after its first receive attempt, whatever it got.
FlushOnce(x) == FALSE

\* The flush that stops at a receive error (`while let Ok(Ok(_))`).
FlushStopsAtError(x) == x.kind = "dgram"

\* A flush that goes on after an attempt that timed out.
FlushNeverStops(x) == TRUE

\* clear_recv_buffer's loop condition: `.is_ok()` of the timeout's result,
\* true for a datagram and for a receive error alike.
FlushContinues(x) == x.kind # "elapsed"

\* OscClient::clear_recv_buffer, one receive attempt of its loop.
clear_recv_buffer(t) ==
    /\ pc[t] = "flush"
    /\ LET c == cli[t]
           x == RecvOutcome(queue[c]) IN
       /\ queue' = [queue EXCEPT ![c] = AfterRecv(@)]
       /\ IF FlushContinues(x)
          THEN UNCHANGED <<pc, flushSeq>>
          ELSE /\ pc' = [pc EXCEPT ![t] = "send"]
               /\ flushSeq' = [flushSeq EXCEPT ![t] = ndeliv[c]]
    /\ UNCHANGED <<clients, ndeliv, reqs, ncalls>>
    /\ UNCHANGED hvars
    /\ UNCHANGED <<op, hnd, cli, res, responses, myreq, nsent, stale, sendSeq,
                   got, joined>>
    /\ UNCHANGED dvars

\* Outcomes of OscClient::send: encoder::encode and send_to both succeed, or
\* one of them fails.
SendOutcomes == {"ok", "OscEncode", "Network"}

\* An operation that returns once its request has left, as send does.
AfterSendAlwaysDone(o) == "done"

\* What follows a successful send inside the operation o.
AfterSend(o) == IF o = "send" THEN "done" ELSE "recv"

\* A query that ignores the failure of its send and goes on to receive.
AfterSendFailureIgnored(o) == IF o = "send" THEN "done" ELSE "recv"

\* What follows a failed send: send returns the error, and in query and
\* query_all `self.send(addr, args).await?` returns it at once.
AfterSendFailure(o) == "done"

\* OscClient::send, also as the send step of query and query_all.
send(t) ==
    /\ pc[t] = "send"
    /\ \E o \in SendOutcomes :
         IF o = "ok"
         THEN /\ reqs' = Append(reqs, [client |-> cli[t], port |-> clients[cli[t]].port])
              /\ myreq' = [myreq EXCEPT ![t] = Len(reqs) + 1]
              /\ nsent' = [nsent EXCEPT ![t] = @ + 1]
              /\ sendSeq' = [sendSeq EXCEPT ![t] = ndeliv[cli[t]]]
              /\ pc' = [pc EXCEPT ![t] = AfterSend(op[t])]
              /\ res' = [res EXCEPT ![t] = IF op[t] = "send" THEN Ok(<<>>) ELSE @]
         ELSE /\ res' = [res EXCEPT ![t] = Err(o)]
              /\ pc' = [pc EXCEPT ![t] = AfterSendFailure(op[t])]
              /\ UNCHANGED <<reqs, myreq, nsent, sendSeq>>
    /\ UNCHANGED <<clients, queue, ndeliv, ncalls>>
    /\ UNCHANGED hvars
    /\ UNCHANGED <<op, hnd, cli, responses, stale, flushSeq, got, joined>>
    /\ UNCHANGED dvars

\* T::from_osc for the two target types the operations use: query decodes
\* to i32, test_connection to the raw argument list.
FromOsc(o, p) == IF o = "test_connection" THEN FromOscArgs(p) ELSE FromOscI32(p)

\* A query whose expired timeout surfaces as a network error.
QueryResultElapsedAsNetwork(o, x) ==
    IF x.kind \in {"elapsed", "err"} THEN Err("Network")
    ELSE IF decode_udp(x.bytes).tag = "Err" THEN Err("OscEncode")
    ELSE FromOsc(o, decode_udp(x.bytes).val)

\* Lines 79-86 of query: the awaited receive `??`, decode_udp `?`, from_osc.
QueryResult(o, x) ==
    IF x.kind = "elapsed" THEN Err("Timeout")
    ELSE IF x.kind = "err" THEN Err("Network")
    ELSE IF decode_udp(x.bytes).tag = "Err" THEN Err("OscEncode")
    ELSE FromOsc(o, decode_udp(x.bytes).val)

\* A match that reports every failure of the query as "no connection".
TestConnectionAnyErrFalse(r) == IF r.tag = "Ok" THEN Ok(TRUE) ELSE Ok(FALSE)

\* OscClient::test_connection's match on the query's result.
TestConnectionResult(r) ==
    IF r.tag = "Ok" THEN Ok(TRUE)
    ELSE IF r.err = "Timeout" THEN Ok(FALSE)
    ELSE r

\* A query that takes a datagram for the reply only if it came from the
\* remote endpoint.
OpResultRemoteOnly(o, x) ==
    IF x.kind = "dgram" /\ x.src # "remote" THEN Err("InvalidResponse")
    ELSE IF o = "test_connection" THEN TestConnectionResult(QueryResult(o, x))
    ELSE QueryResult(o, x)

OpResult(o, x) ==
    IF o = "test_connection" THEN TestConnectionResult(QueryResult(o, x))
    ELSE QueryResult(o, x)

\* A query that, once, sends its request again when the timeout expires.
RetryOnTimeout(t, x) ==
    IF x.kind = "elapsed" /\ nsent[t] < 2 THEN "send" ELSE "done"

\* A query that goes on receiving after a datagram, until nothing is left.
DrainAfterReply(t, x) == IF x.kind = "dgram" THEN "recv" ELSE "done"

\* query returns after its single receive whatever the outcome (`??`, `?` and
\* the final expression all leave the function): there is no retry loop.
AfterQueryRecv(t, x) == "done"

\* query (and test_connection): the single awaited receive and the decode.
query_recv(t) ==
    /\ pc[t] = "recv"
    /\ op[t] \in {"query", "test_connection"}
    /\ LET c == cli[t]
           x == RecvOutcome(queue[c]) IN
       /\ queue' = [queue EXCEPT ![c] = AfterRecv(@)]
       /\ got' = [got EXCEPT ![t] = IF x.kind = "dgram" THEN Append(@, x) ELSE @]
       /\ res' = [res EXCEPT ![t] = OpResult(op[t], x)]
       /\ pc' = [pc EXCEPT ![t] = AfterQueryRecv(t, x)]
    /\ UNCHANGED <<clients, ndeliv, reqs, ncalls>>
    /\ UNCHANGED hvars
    /\ UNCHANGED <<op, hnd, cli, responses, myreq, nsent, stale, flushSeq,
                   sendSeq, joined>>
    /\ UNCHANGED dvars

\* A loop that also ends at a datagram that does not decode.
CollectStopsAtUndecodable(x) == x.kind = "dgram" /\ x.bytes.wf

\* query_all's loop condition: `while let Ok(Ok(..))`.
CollectContinues(x) == x.kind = "dgram"

\* A loop body that keeps only the packet received last.
CollectLatest(rs, x) ==
    IF decode_udp(x.bytes).tag = "Ok" THEN <<decode_udp(x.bytes).val>> ELSE rs

\* A loop body that pushes a packet for every datagram, decodable or not.
CollectPushesAll(rs, x) == Append(rs, x.bytes.pkt)

\* query_all's loop body: push the packet if the bytes decode.
Collect(rs, x) ==
    IF decode_udp(x.bytes).tag = "Ok" THEN Append(rs, decode_udp(x.bytes).val) ELSE rs

\* query_all, one receive attempt of its loop.
query_all_recv(t) ==
    /\ pc[t] = "recv"
    /\ op[t] = "query_all"
    /\ LET c == cli[t]
           x == RecvOutcome(queue[c]) IN
       /\ queue' = [queue EXCEPT ![c] = AfterRecv(@)]
       /\ IF CollectContinues(x)
          THEN /\ responses' = [responses EXCEPT ![t] = Collect(@, x)]
               /\ got' = [got EXCEPT ![t] = Append(@, x)]
               /\ UNCHANGED <<pc, res>>
          ELSE /\ res' = [res EXCEPT ![t] = Ok(responses[t])]
               /\ pc' = [pc EXCEPT ![t] = "done"]
               /\ UNCHANGED <<responses, got>>
    /\ UNCHANGED <<clients, ndeliv, reqs, ncalls>>
    /\ UNCHANGED hvars
    /\ UNCHANGED <<op, hnd, cli, myreq, nsent, stale, flushSeq, sendSeq, joined>>
    /\ UNCHANGED dvars

\* ------------------------------------------------------- specification
\* One task issuing one operation after the other, on either handle: the
\* discipline the client is written for (no second operation on a client
\* before the first has returned).
Next ==
    \/ \E h \in Handles : OscHandle_new(h)
    \/ \E h \in Handles, o \in Ops : Call(1, h, o)
    \/ BindOk(1)
    \/ BindFail(1)
    \/ clear_recv_buffer(1)
    \/ send(1)
    \/ query_recv(1)
    \/ query_all_recv(1)
    \/ \E r \in 1..Len(reqs) : PeerReply(r)
    \/ \E r \in 1..Len(reqs) : SocketError(r)

Spec == Init /\ [][Next]_vars

\* The task that issues the operations of Spec.
Running == {1}

\* The runtime polls a task whose awaited receive, timer or send is ready.
Fairness ==
    \A t \in Running :
        /\ WF_vars(clear_recv_buffer(t))
        /\ WF_vars(send(t))
        /\ WF_vars(query_recv(t))
        /\ WF_vars(query_all_recv(t))

FairSpec == Spec /\ Fairness

\* Two tasks, each issuing one operation, concurrently: task 1 on handle 1,
\* task 2 on a clone of handle 1 or on handle 2.
FirstCall(t, h, o) == pc[t] = "idle" /\ Call(t, h, o)

DuoNext ==
    \/ \E h \in Handles : OscHandle_new(h)
    \/ \E t \in Tasks, o \in Ops : \E h \in HandlesOf(t) : FirstCall(t, h, o)
    \/ \E t \in Tasks : BindOk(t)
    \/ \E t \in Tasks : BindFail(t)
    \/ \E t \in Tasks : WakeInit(t)
    \/ \E t \in Tasks : clear_recv_buffer(t)
    \/ \E t \in Tasks : send(t)
    \/ \E t \in Tasks : query_recv(t)
    \/ \E t \in Tasks : query_all_recv(t)
    \/ \E r \in 1..Len(reqs) : PeerReply(r)
    \/ \E r \in 1..Len(reqs) : SocketError(r)

DuoSpec == Init /\ [][DuoNext]_vars

\* The decoder by itself: any packet of the bounded shapes is handed to
\* from_osc, for any of the target types, any number of times.
ArgValues ==
    {OInt(0), OInt(5), OInt(7), OInt(-2), OInt(16777217),
     OFloat(1), OFloat(5), OFloat(-3),
     OStr("a"), OStr("b"), OBool(TRUE), OBool(FALSE), ONil}

ArgLists == UNION {[1..n -> ArgValues] : n \in 0..MaxArgs}

Packets ==
    {Message(a) : a \in ArgLists}
      \cup {Bundle(<<Bundle(<<>>), Message(a)>>) : a \in ArgLists}
      \cup {Bundle(<<Message(a), Message(<<OStr("b")>>)>>) : a \in ArgLists}
      \cup {Bundle(<<>>), Bundle(<<Bundle(<<Message(<<OInt(7)>>)>>)>>)}

DecInit ==
    /\ InitClient
    /\ packet \in Packets
    /\ target = "none"
    /\ decoded = NoRes

from_osc(ty) ==
    /\ target' = ty
    /\ decoded' = FromOscAs(ty, packet)
    /\ UNCHANGED packet
    /\ UNCHANGED <<hvars, nvars, tvars, ncalls>>

DecNext == \E ty \in Targets : from_osc(ty)

DecSpec == DecInit /\ [][DecNext]_vars

\* The single task of Spec, with datagrams from other senders arriving on
\* the clients' ports as well.
SrcNext ==
    \/ Next
    \/ \E c \in ClientIds : StrayDatagram(c)

SrcSpec == Init /\ [][SrcNext]_vars

TypeOK == \A t \in Tasks : pc[t] \in {"idle", "binding", "waiting", "flush", "send", "recv", "done"}

\* -------------------------------------------------------------- claims
Queries == {t \in Tasks : op[t] = "query" /\ pc[t] # "idle"}
Returned(t) == pc[t] = "done"

\* C1: in every execution of query the flush finishes before the request is
\* sent, exactly one request is sent, one receive follows the send, and the
\* value returned on success is the decoder's result for the first datagram
\* received after the send.
C1_QueryOrder ==
    \A t \in Queries :
        /\ nsent[t] <= 1
        /\ nsent[t] = 1 => flushSeq[t] >= 0
        /\ pc[t] = "recv" => nsent[t] = 1 /\ got[t] = <<>>
        /\ Len(got[t]) <= 1
        /\ got[t] # <<>> => nsent[t] = 1
        /\ (Returned(t) /\ res[t].tag = "Ok") =>
              /\ Len(got[t]) = 1
              /\ decode_udp(got[t][1].bytes).tag = "Ok"
              /\ res[t] = FromOscI32(decode_udp(got[t][1].bytes).val)

C1_Witness ==
    \E t \in Queries : Returned(t) /\ res[t].tag = "Ok" /\ flushSeq[t] >= 0

\* C2 as stated: whenever query returns a value, the datagram it was decoded
\* from answers that query's own request.
C2_OwnReplyOnly ==
    \A t \in Queries :
        (Returned(t) /\ res[t].tag = "Ok") => got[t][1].req = myreq[t]

\* C2 amended: whenever query returns a value, the datagram it was decoded
\* from reached the socket after that query's flush had finished; a reply
\* delivered before that moment is never returned (one delivered later, even
\* to an earlier request, can be).
C2_NoReplyFromBeforeFlushEnd ==
    \A t \in Queries :
        (Returned(t) /\ res[t].tag = "Ok") =>
            /\ flushSeq[t] >= 0
            /\ got[t][1].seq > flushSeq[t]

C2_Witness ==
    \E t \in Queries :
        /\ Returned(t) /\ res[t].tag = "Ok"
        /\ flushSeq[t] >= 1
        /\ got[t][1].req = myreq[t]

Flushers == {t \in Tasks : op[t] # "send" /\ pc[t] # "idle"}
InQueue(c) == {queue[c][i].seq : i \in 1..Len(queue[c])}

\* C3: every datagram in the receive queue when query or query_all is
\* invoked is gone from the queue before the request is sent and is never
\* among the datagrams the call's result is produced from.
C3_StaleDiscarded ==
    \A t \in Flushers :
        /\ pc[t] = "send" => InQueue(cli[t]) \cap stale[t] = {}
        /\ nsent[t] >= 1 => InQueue(cli[t]) \cap stale[t] = {}
        /\ \A i \in 1..Len(got[t]) : got[t][i].seq \notin stale[t]

C3_Witness ==
    \E t \in Flushers :
        /\ Returned(t) /\ res[t].tag = "Ok" /\ got[t] # <<>>
        /\ stale[t] # {}

\* The step in which the query of task t returns.
QueryReturns(t) == op[t] = "query" /\ pc[t] = "recv" /\ pc'[t] = "done"

\* C4 as stated: if nothing arrives on the socket after the request is sent,
\* query returns Timeout and nothing else.
C4_TimeoutIfSilentAfterSend ==
    [][\A t \in Tasks :
          (QueryReturns(t) /\ ndeliv[cli[t]] = sendSeq[t]) =>
              res'[t] = Err("Timeout")]_vars

\* C4 amended: if nothing arrives on the socket after the flush has finished,
\* query returns Timeout and nothing else, and a query that awaits its reply
\* always returns.
C4_TimeoutIfSilentAfterFlush ==
    /\ [][\A t \in Tasks :
             (QueryReturns(t) /\ ndeliv[cli[t]] = flushSeq[t]) =>
                 res'[t] = Err("Timeout")]_vars
    /\ \A t \in Running :
          (op[t] = "query" /\ pc[t] = "recv") ~> (pc[t] = "done")

C4_Witness ==
    \E t \in Queries :
        /\ Returned(t) /\ res[t] = Err("Timeout")
        /\ nsent[t] = 1
        /\ ndeliv[cli[t]] = flushSeq[t]

\* C5: a query of one client never returns the reply generated for a request
\* of another client; with a peer echoing the sender's port it returns the
\* client's own port.
C5_NoCrossTalk ==
    \A t \in Queries :
        (Returned(t) /\ res[t].tag = "Ok") =>
            /\ reqs[got[t][1].req].client = cli[t]
            /\ res[t].val = clients[cli[t]].port

C5_Witness ==
    \E t \in Queries, u \in Queries :
        /\ cli[t] # 0 /\ cli[u] # 0 /\ cli[t] # cli[u]
        /\ Returned(t) /\ res[t].tag = "Ok"
        /\ pc[u] = "recv" /\ queue[cli[u]] # <<>>
        /\ Head(queue[cli[u]]).req = myreq[u]

\* C6: any two clients are bound to different local ports.
C6_DistinctPorts ==
    \A c \in ClientIds, d \in ClientIds :
        c # d => clients[c].port # clients[d].port

C6_Witness ==
    \E c \in ClientIds, d \in ClientIds : clients[c].owner # clients[d].owner

ClientsOf(h) == {c \in ClientIds : clients[c].owner = h}

\* C7: at most one client is ever created for a handle, and every caller
\* that got a client from the handle's accessor got that one.
C7_OneClientPerHandle ==
    /\ \A h \in Handles : Cardinality(ClientsOf(h)) <= 1
    /\ \A t \in Tasks :
          cli[t] # 0 => cli[t] = cell[hnd[t]] /\ clients[cli[t]].owner = hnd[t]

C7_Witness ==
    \E t \in Tasks, u \in Tasks :
        /\ t # u /\ hnd[t] = hnd[u]
        /\ joined[u]
        /\ cli[t] # 0 /\ cli[u] = cli[t]

\* C8: a handle on which no operation has been invoked is uninitialized and
\* owns no socket.
C8_NoSocketBeforeUse ==
    \A h \in Handles : ~used[h] => cell[h] = 0 /\ ClientsOf(h) = {}

C8_Witness ==
    \E h \in Handles : hstate[h] = "live" /\ ~used[h] /\ clients # <<>>

\* C9: an initialized handle keeps its client: the cell and the client's
\* socket never change again, and every operation running on the handle
\* after that uses this client, whatever the outcome of earlier operations.
C9_InitializedForever ==
    [][\A h \in Handles :
          cell[h] # 0 =>
             /\ cell'[h] = cell[h]
             /\ clients'[cell[h]] = clients[cell[h]]
             /\ \A t \in Tasks :
                   (hnd'[t] = h /\ pc'[t] \in {"flush", "send", "recv"}) =>
                       cli'[t] = cell[h]]_vars

C9_Witness ==
    \E t \in Tasks :
        /\ Len(reqs) = 2 /\ \A r \in 1..2 : reqs[r].client = cli[t]
        /\ Returned(t) /\ res[t] = Err("Timeout")
        /\ cell[hnd[t]] = cli[t]

RECURSIVE DecodedPackets(_)
DecodedPackets(g) ==
    IF g = <<>> THEN <<>>
    ELSE IF Head(g).bytes.wf
         THEN <<Head(g).bytes.pkt>> \o DecodedPackets(Tail(g))
         ELSE DecodedPackets(Tail(g))

\* C10: query_all goes on receiving after every datagram and returns, at
\* the first receive attempt that yields no datagram, Ok with the packets of
\* the well-formed datagrams it received after its send, in order; with no
\* datagram at all that is Ok with the empty list.
C10_QueryAllCollects ==
    [][\A t \in Tasks :
          (op[t] = "query_all" /\ pc[t] = "recv" /\ pc'[t] = "done") =>
              /\ RecvOutcome(queue[cli[t]]).kind # "dgram"
              /\ res'[t] = Ok(DecodedPackets(got[t]))]_vars

C10_Witness ==
    \E t \in Tasks :
        /\ op[t] = "query_all" /\ Returned(t)
        /\ res[t].tag = "Ok" /\ Len(res[t].val) = 2

\* C11: query_all has an idle timeout and no total deadline: a receive
\* attempt that yields a datagram never ends the call, however many it has
\* received already, and with finitely many datagrams delivered the call
\* eventually returns.
C11_IdleTimeoutNoDeadline ==
    /\ [][\A t \in Tasks :
             (/\ op[t] = "query_all" /\ pc[t] = "recv"
              /\ queue[cli[t]] # <<>>
              /\ Head(queue[cli[t]]).kind = "dgram"
              /\ queue'[cli[t]] = Tail(queue[cli[t]]))
                 => pc'[t] = "recv" /\ res'[t] = NoRes]_vars
    /\ \A t \in Running :
          (op[t] = "query_all" /\ pc[t] = "recv") ~> (pc[t] = "done")

C11_Witness ==
    \E t \in Tasks :
        /\ op[t] = "query_all" /\ pc[t] = "recv"
        /\ Len(got[t]) >= 2
        /\ ~ got[t][1].bytes.wf

\* The packet holds a message an argument list can be taken from.
HasArgList(p) ==
    \/ p.pk = "Message"
    \/ \E i \in 1..Len(p.content) : p.content[i].pk = "Message"

\* C12: test_connection returns Ok(true) exactly when its receive yields a
\* well-formed reply holding an argument list, Ok(false) exactly when the
\* receive times out, and the query's own error for every other failure
\* (receive error, undecodable bytes, no argument list, failed send or bind).
C12_TestConnectionResult ==
    [][\A t \in Tasks :
          (op[t] = "test_connection" /\ pc[t] # "done" /\ pc'[t] = "done") =>
              IF pc[t] = "recv"
              THEN LET x == RecvOutcome(queue[cli[t]])
                       wellFormed == x.kind = "dgram" /\ x.bytes.wf
                   IN /\ (res'[t] = Ok(TRUE)) <=>
                            (wellFormed /\ HasArgList(x.bytes.pkt))
                      /\ (res'[t] = Ok(FALSE)) <=> (x.kind = "elapsed")
                      /\ x.kind = "err" => res'[t] = Err("Network")
                      /\ (x.kind = "dgram" /\ ~ x.bytes.wf) =>
                            res'[t] = Err("OscEncode")
                      /\ (wellFormed /\ ~ HasArgList(x.bytes.pkt)) =>
                            res'[t] = Err("InvalidResponse")
              ELSE res'[t] \in {Err("Network"), Err("OscEncode")}]_vars

C12_Witness ==
    \E t \in Tasks :
        /\ op[t] = "test_connection" /\ Returned(t)
        /\ res[t] = Err("InvalidResponse")
        /\ Len(got[t]) = 1

Senders == {t \in Tasks : op[t] = "send" /\ pc[t] # "idle"}

\* C13: send never reads from the socket and never waits for a reply: it
\* goes from its single transmission straight to its return, it returns Ok
\* exactly when it put one datagram on the wire (whatever has or has not
\* been delivered to the client), and everything that was in the receive
\* queue when it was invoked is still there when it returns.
C13_SendOnly ==
    /\ [](\A t \in Senders :
             /\ pc[t] \notin {"flush", "recv"}
             /\ flushSeq[t] = -1 /\ got[t] = <<>>
             /\ nsent[t] <= 1
             /\ Returned(t) => ((res[t] = Ok(<<>>)) <=> (nsent[t] = 1))
             /\ cli[t] # 0 => stale[t] \subseteq InQueue(cli[t]))
    /\ [][\A t \in Senders :
             (pc[t] = "send" /\ pc'[t] # "send") =>
                 /\ pc'[t] = "done"
                 /\ queue' = queue
                 /\ Len(reqs') = Len(reqs) + nsent'[t]]_vars

C13_Witness ==
    \E t \in Senders :
        /\ Returned(t) /\ res[t] = Ok(<<>>)
        /\ stale[t] # {} /\ stale[t] = InQueue(cli[t])
        /\ reqs[myreq[t]].client = cli[t]

\* The receive that consumes x inside the step pc fails: the socket reports
\* an error, or (past the flush, where datagrams are decoded) the bytes are
\* no OSC packet.
FailedReceive(x, at) ==
    \/ x.kind = "err"
    \/ x.kind = "dgram" /\ at = "recv" /\ ~ x.bytes.wf

\* C14: no error is swallowed: whenever a receive of send, query or
\* query_all fails, or the datagram it received does not decode, the
\* operation ends there and returns an Err.
C14_NoErrorSwallowed ==
    [][\A t \in Tasks :
          (/\ op[t] \in {"send", "query", "query_all"}
           /\ pc[t] \in {"flush", "recv"}
           /\ queue[cli[t]] # <<>>
           /\ queue'[cli[t]] = Tail(queue[cli[t]])
           /\ FailedReceive(Head(queue[cli[t]]), pc[t]))
              => pc'[t] = "done" /\ res'[t].tag = "Err"]_vars

\* C15: a query that received a reply datagram and could not produce a value
\* from it fails with InvalidResponse, whatever the datagram's bytes; the
\* encode error is returned only when the request could not be encoded, so
\* never after the request has left.
C15_UndecodableIsInvalidResponse ==
    \A t \in Queries :
        (Returned(t) /\ res[t].tag = "Err") =>
            /\ got[t] # <<>> => res[t] = Err("InvalidResponse")
            /\ res[t] = Err("OscEncode") => nsent[t] = 0

\* C16: no automatic retries: an invocation puts at most one request on the
\* wire (so never more requests than invocations), the step in which it fails
\* is its last, and once it has returned it sends nothing and takes nothing
\* more from the socket.
C16_NoRetry ==
    /\ [](/\ Len(reqs) <= ncalls
          /\ \A t \in Tasks : nsent[t] <= 1
          /\ \A t \in Queries : Len(got[t]) <= 1)
    /\ [][\A t \in Tasks :
             /\ (res'[t].tag = "Err" /\ res[t].tag # "Err") => pc'[t] = "done"
             /\ (pc[t] = "done" /\ pc'[t] = "done") =>
                   /\ reqs' = reqs
                   /\ res'[t] = res[t]
                   /\ \A c \in ClientIds : Len(queue'[c]) >= Len(queue[c])]_vars

C16_Witness ==
    \E t \in Tasks :
        /\ Returned(t) /\ res[t] = Err("Timeout")
        /\ nsent[t] = 1 /\ Len(reqs) = 1
        /\ queue[cli[t]] # <<>>

QueryOps == {"query", "query_all", "test_connection"}

\* C17: on one client at most one query is outstanding: while a query of one
\* task waits for its reply, no other task is inside the flush, send or
\* receive of a query on the same client.
C17_OneOutstandingQuery ==
    \A t \in Tasks, u \in Tasks :
        (/\ t # u
         /\ op[t] \in QueryOps /\ pc[t] = "recv"
         /\ op[u] \in QueryOps /\ cli[u] = cli[t])
            => pc[u] \notin {"flush", "send", "recv"}

\* The argument list of the packet handed to the decoder: the message's own
\* or, for a bundle, its first message's.
HasArgs == HasArgList(packet)
MessagesIn(c) == {i \in 1..Len(c) : c[i].pk = "Message"}
Lowest(S) == CHOOSE i \in S : \A j \in S : i <= j
TheArgs ==
    IF packet.pk = "Message" THEN packet.args
    ELSE packet.content[Lowest(MessagesIn(packet.content))].args
ArgsOfType(ty) == {i \in 1..Len(TheArgs) : TheArgs[i].ty = ty}
Highest(S) == CHOOSE i \in S : \A j \in S : j <= i
Abs(x) == IF x < 0 THEN -x ELSE x

\* z is the float h/2 with its fraction dropped
IsTruncationOf(z, h) ==
    /\ z * h >= 0
    /\ 2 * Abs(z) <= Abs(h)
    /\ Abs(h) < 2 * Abs(z) + 2

\* x is what decoding the first argument alone to an integer gives
FirstCoercedToInt(x) ==
    CASE TheArgs[1].ty = "Int"   -> x = Ok(TheArgs[1].v)
      [] TheArgs[1].ty = "Float" ->
             x.tag = "Ok" /\ IsTruncationOf(x.val, TheArgs[1].v)
      [] OTHER -> x = Err("InvalidResponse")

\* C18: decoding an argument list to i32: a single argument is coerced (Int
\* as is, Float truncated toward zero, anything else fails); of two or more
\* arguments the last Int is returned; two or more without an Int give the
\* first argument truncated if it is a Float and fail otherwise; the empty
\* list fails with InvalidResponse.
C18_DecodeI32 ==
    (target = "i32" /\ HasArgs) =>
        /\ Len(TheArgs) = 0 => decoded = Err("InvalidResponse")
        /\ Len(TheArgs) = 1 => FirstCoercedToInt(decoded)
        /\ (Len(TheArgs) >= 2 /\ ArgsOfType("Int") # {}) =>
              decoded = Ok(TheArgs[Highest(ArgsOfType("Int"))].v)
        /\ (Len(TheArgs) >= 2 /\ ArgsOfType("Int") = {}) =>
              IF TheArgs[1].ty = "Float"
              THEN decoded.tag = "Ok" /\ IsTruncationOf(decoded.val, TheArgs[1].v)
              ELSE decoded = Err("InvalidResponse")
        /\ TheArgs = <<OInt(0), OInt(7)>> => decoded = Ok(7)

C18_Witness ==
    /\ target = "i32"
    /\ packet = Message(<<OInt(0), OInt(7)>>)
    /\ decoded = Ok(7)

\* h (in halves) is the integer v converted to f32: v itself where f32 holds
\* it exactly, and otherwise a float next to it
IsFloatOf(h, v) ==
    IF Abs(v) <= 16777216 THEN h = 2 * v ELSE Abs(h - 2 * v) <= 2

\* C19: decoding an argument list to f32: a list holding a Float gives its
\* last Float; a list that is a single Int gives that integer as a float; two
\* or more arguments without a Float give the first argument converted if it
\* is an Int and fail otherwise; the empty list fails with InvalidResponse.
C19_DecodeF32 ==
    (target = "f32" /\ HasArgs) =>
        /\ ArgsOfType("Float") # {} =>
              decoded = Ok(TheArgs[Highest(ArgsOfType("Float"))].v)
        /\ (Len(TheArgs) = 1 /\ TheArgs[1].ty = "Int") =>
              decoded.tag = "Ok" /\ IsFloatOf(decoded.val, TheArgs[1].v)
        /\ (Len(TheArgs) >= 2 /\ ArgsOfType("Float") = {}) =>
              IF TheArgs[1].ty = "Int"
              THEN decoded.tag = "Ok" /\ IsFloatOf(decoded.val, TheArgs[1].v)
              ELSE decoded = Err("InvalidResponse")
        /\ Len(TheArgs) = 0 => decoded = Err("InvalidResponse")
        /\ TheArgs = <<OInt(0), OFloat(1)>> => decoded = Ok(1)
        /\ TheArgs = <<OInt(5)>> => decoded = Ok(10)

C19_Witness ==
    /\ target = "f32"
    /\ packet = Message(<<OFloat(5), OFloat(1)>>)
    /\ decoded = Ok(1)

\* C20: decoding an argument list to a string returns the String argument at
\* the highest position, whatever precedes or follows it, and fails with
\* InvalidResponse exactly when the list holds no String (the empty list
\* included).
C20_DecodeString ==
    (target = "String" /\ HasArgs) =>
        /\ ArgsOfType("String") # {} =>
              decoded = Ok(TheArgs[Highest(ArgsOfType("String"))].v)
        /\ (decoded.tag = "Err") <=> (ArgsOfType("String") = {})
        /\ decoded.tag = "Err" => decoded = Err("InvalidResponse")

C20_Witness ==
    /\ target = "String"
    /\ Len(TheArgs) = 2
    /\ TheArgs[1] = OStr("b") /\ TheArgs[2].ty # "String"
    /\ decoded = Ok("b")

\* C21: decoding an argument list to a boolean looks at the first argument
\* only: a Bool is returned as is, an Int gives true exactly when it is not
\* zero, any other type and the empty list fail with InvalidResponse, and
\* the arguments after the first do not change the result.
C21_DecodeBool ==
    (target = "bool" /\ HasArgs) =>
        /\ Len(TheArgs) = 0 => decoded = Err("InvalidResponse")
        /\ Len(TheArgs) >= 1 =>
              /\ TheArgs[1].ty = "Bool" => decoded = Ok(TheArgs[1].v)
              /\ TheArgs[1].ty = "Int" => decoded = Ok(TheArgs[1].v # 0)
              /\ TheArgs[1].ty \notin {"Bool", "Int"} =>
                    decoded = Err("InvalidResponse")
              /\ decoded = FromOscBool(Message(<<TheArgs[1]>>))

C21_Witness ==
    /\ target = "bool"
    /\ packet = Message(<<OInt(0), OBool(TRUE)>>)
    /\ decoded = Ok(FALSE)

\* C22: decoding a packet to the raw argument list returns a message's
\* arguments unchanged; for a bundle it returns the arguments of the first
\* element of the content that is a message, whatever the other elements
\* are, and it fails, with InvalidResponse, exactly when no element of the
\* content is a message.
C22_DecodeArgs ==
    target = "args" =>
        /\ packet.pk = "Message" => decoded = Ok(packet.args)
        /\ (packet.pk = "Bundle" /\ MessagesIn(packet.content) # {}) =>
              decoded = Ok(packet.content[Lowest(MessagesIn(packet.content))].args)
        /\ (decoded.tag = "Err") <=>
              (packet.pk = "Bundle" /\ MessagesIn(packet.content) = {})
        /\ decoded.tag = "Err" => decoded = Err("InvalidResponse")

C22_Witness ==
    /\ target = "args"
    /\ packet = Bundle(<<Message(<<OInt(0), OStr("a")>>), Message(<<OStr("b")>>)>>)
    /\ decoded = Ok(<<OInt(0), OStr("a")>>)

\* The value a caller of the target type asks for: of the type itself, and
\* for a boolean also an Int standing for it.
WantedTypes(ty) ==
    CASE ty = "String" -> {"String"}
      [] ty = "i32"    -> {"Int"}
      [] ty = "f32"    -> {"Float"}
      [] ty = "bool"   -> {"Bool", "Int"}
      [] OTHER         -> {}

\* the argument list is one or more Int index arguments and then the value
IndexPrefixed ==
    /\ HasArgs
    /\ Len(TheArgs) >= 2
    /\ \A i \in 1..(Len(TheArgs) - 1) : TheArgs[i].ty = "Int"
    /\ TheArgs[Len(TheArgs)].ty \in WantedTypes(target)

\* C23: for each single-value target type, decoding a reply whose argument
\* list is Int index arguments followed by the wanted value gives the same
\* result as decoding the reply holding the wanted value alone.
C23_IndexPrefixTolerated ==
    (target \in {"String", "i32", "f32", "bool"} /\ IndexPrefixed) =>
        decoded = FromOscAs(target, Message(<<TheArgs[Len(TheArgs)]>>))

\* C24: the flush always terminates: every attempt that yields a datagram or
\* a socket error discards it and is followed by another attempt, the first
\* attempt that times out ends the flush, and a flush that has started
\* reaches its end.
C24_FlushTerminates ==
    /\ [][\A t \in Tasks :
             pc[t] = "flush" =>
                 /\ (queue[cli[t]] # <<>> /\ queue'[cli[t]] = Tail(queue[cli[t]]))
                       => pc'[t] = "flush"
                 /\ pc'[t] # "flush" =>
                       /\ queue[cli[t]] = <<>>
                       /\ pc'[t] = "send"]_vars
    /\ \A t \in Running : (pc[t] = "flush") ~> (pc[t] = "send")

C24_Witness ==
    \E t \in Tasks :
        /\ op[t] \in QueryOps /\ pc[t] = "send"
        /\ Cardinality(stale[t]) >= 2
        /\ queue[cli[t]] = <<>>

\* What OscClient::query::<i32> returns for the outcome x of its receive.
ClientQueryReturns(x) ==
    IF x.kind = "elapsed" THEN Err("Timeout")
    ELSE IF x.kind = "err" THEN Err("Network")
    ELSE IF ~ x.bytes.wf THEN Err("OscEncode")
    ELSE FromOscI32(x.bytes.pkt)

\* C25: an operation invoked on a handle returns what that operation of the
\* handle's client returns: it runs on the client held by the handle's cell,
\* it is the operation that was invoked, and its result is the client's, for
\* each outcome of the send and of the receive; when the accessor fails the
\* operation returns that error and no datagram is sent.
C25_HandleDelegates ==
    [][\A t \in Tasks :
          (pc[t] # "done" /\ pc'[t] = "done") =>
              CASE pc[t] = "binding" ->
                       /\ res'[t] = Err("Network")
                       /\ reqs' = reqs /\ nsent'[t] = 0 /\ cli'[t] = 0
                [] pc[t] = "send" ->
                       /\ cli[t] = cell[hnd[t]]
                       /\ IF Len(reqs') > Len(reqs)
                          THEN /\ op[t] = "send" /\ res'[t] = Ok(<<>>)
                               /\ reqs'[Len(reqs')].client = cli[t]
                          ELSE res'[t] \in {Err("OscEncode"), Err("Network")}
                [] pc[t] = "recv" ->
                       /\ cli[t] = cell[hnd[t]]
                       /\ nsent[t] = 1
                       /\ LET x == RecvOutcome(queue[cli[t]]) IN
                          CASE op[t] = "query" -> res'[t] = ClientQueryReturns(x)
                            [] op[t] = "query_all" ->
                                   x.kind # "dgram" /\ res'[t] = Ok(responses[t])
                            [] op[t] = "test_connection" ->
                                   res'[t] \in {Ok(TRUE), Ok(FALSE), Err("Network"),
                                                Err("OscEncode"), Err("InvalidResponse")}
                            [] OTHER -> FALSE
                [] OTHER -> FALSE]_vars

C25_Witness ==
    \E t \in Tasks :
        /\ hnd[t] = 2 /\ cli[t] = cell[2] /\ cli[t] # 0
        /\ op[t] = "query" /\ Returned(t) /\ res[t].tag = "Ok"
        /\ res[t].val = clients[cell[2]].port

\* C26: when creating the client fails, the caller gets the error, the cell
\* stays empty, no client is left behind and the permit is free again; the
\* next operation on the handle runs the creation again; a creation that
\* succeeds sets the cell to the one client the handle ever owns.
C26_FailedInitRetried ==
    /\ [](\A h \in Handles :
             /\ cell[h] = 0 => ClientsOf(h) = {}
             /\ Cardinality(ClientsOf(h)) <= 1)
    /\ [][\A t \in Tasks :
             /\ (pc[t] = "binding" /\ pc'[t] = "done") =>
                   /\ res'[t] = Err("Network")
                   /\ cell' = cell /\ cell[hnd[t]] = 0
                   /\ clients' = clients
                   /\ initBy'[hnd[t]] = 0
             /\ (ncalls' = ncalls + 1 /\ pc'[t] # pc[t] /\ cell[hnd'[t]] = 0) =>
                   pc'[t] = "binding"
             /\ (pc[t] = "binding" /\ pc'[t] \notin {"binding", "done"}) =>
                   /\ cell'[hnd[t]] = Len(clients')
                   /\ Len(clients') = Len(clients) + 1
                   /\ clients'[Len(clients')].owner = hnd[t]]_vars

C26_Witness ==
    \E t \in Tasks :
        /\ ncalls = 2 /\ pc[t] = "binding"
        /\ cell[hnd[t]] = 0
        /\ \A g \in Handles : used[g] <=> g = hnd[t]

\* C27: after its send a query takes at most one item from the client's
\* receive queue, in the step in which it returns, whatever the result; what
\* arrives later stays queued while the query is returned, belongs to the
\* stale input of the next operation on the client, and is never among the
\* datagrams that operation's result comes from.
C27_QueryTakesOne ==
    /\ [](\A t \in Flushers :
             /\ op[t] \in {"query", "test_connection"} => Len(got[t]) <= 1
             /\ \A i \in 1..Len(got[t]) : got[t][i].seq \notin stale[t])
    /\ [][\A t \in Tasks :
             op[t] \in {"query", "test_connection"} =>
                /\ (pc[t] = "recv" /\ Len(queue'[cli[t]]) < Len(queue[cli[t]])) =>
                      /\ pc'[t] = "done"
                      /\ queue'[cli[t]] = Tail(queue[cli[t]])
                /\ (pc[t] = "done" /\ pc'[t] = "done" /\ cli[t] # 0) =>
                      Len(queue'[cli[t]]) >= Len(queue[cli[t]])
                /\ (pc[t] = "done" /\ pc'[t] \in {"flush", "send"}
                      /\ cli'[t] = cli[t]) =>
                      InQueue(cli[t]) \subseteq stale'[t]]_vars

C27_Witness ==
    \E t \in Queries :
        /\ Returned(t) /\ Len(got[t]) = 1
        /\ got[t][1].req = myreq[t]
        /\ queue[cli[t]] # <<>>
        /\ Head(queue[cli[t]]).kind = "dgram"
        /\ Head(queue[cli[t]]).req = myreq[t]

\* C28: when the send step of query or query_all fails, the call returns
\* the encode or network error in that step, receives nothing and collects
\* nothing, and the datagrams its flush drained stay gone.
C28_SendFailureReturnsAtOnce ==
    /\ [](\A t \in Flushers :
             (Returned(t) /\ cli[t] # 0 /\ nsent[t] = 0) =>
                 /\ res[t] \in {Err("OscEncode"), Err("Network")}
                 /\ got[t] = <<>> /\ responses[t] = <<>>
                 /\ flushSeq[t] >= 0
                 /\ InQueue(cli[t]) \cap stale[t] = {})
    /\ [][\A t \in Flushers :
             (pc[t] = "send" /\ res'[t].tag = "Err") =>
                 /\ pc'[t] = "done"
                 /\ queue' = queue
                 /\ reqs' = reqs]_vars

C28_Witness ==
    \E t \in Tasks :
        /\ op[t] = "query_all" /\ Returned(t)
        /\ res[t] = Err("OscEncode")
        /\ nsent[t] = 0 /\ stale[t] # {}
        /\ queue[cli[t]] = <<>>

WellFormedIn(g) == {i \in 1..Len(g) : g[i].bytes.wf}

\* C29: in query_all a received datagram that is no OSC packet is left out
\* of the result and the loop goes on receiving after it: the list collected
\* holds one packet for each well-formed datagram received and none for the
\* others, so every well-formed datagram received after a malformed one is
\* in the list returned; when the call ends at a receive that timed out, it
\* has received everything that reached the socket since its flush.
C29_MalformedSkipped ==
    /\ [](\A t \in Tasks :
             (op[t] = "query_all" /\ pc[t] \in {"recv", "done"}) =>
                 /\ Len(responses[t]) = Cardinality(WellFormedIn(got[t]))
                 /\ (Returned(t) /\ nsent[t] = 1) =>
                       /\ res[t] = Ok(responses[t])
                       /\ \A j \in WellFormedIn(got[t]) :
                             \E k \in 1..Len(res[t].val) :
                                 res[t].val[k] = got[t][j].bytes.pkt)
    /\ [][\A t \in Tasks :
             (/\ op[t] = "query_all" /\ pc[t] = "recv"
              /\ queue[cli[t]] # <<>>
              /\ Head(queue[cli[t]]).kind = "dgram"
              /\ ~ Head(queue[cli[t]]).bytes.wf
              /\ queue'[cli[t]] = Tail(queue[cli[t]]))
                 => /\ pc'[t] = "recv"
                    /\ responses'[t] = responses[t]
                    /\ got'[t] = Append(got[t], Head(queue[cli[t]]))]_vars
    /\ [][\A t \in Tasks :
             (/\ op[t] = "query_all" /\ pc[t] = "recv" /\ pc'[t] = "done"
              /\ queue[cli[t]] = <<>>)
                 => Len(got[t]) = ndeliv[cli[t]] - flushSeq[t]]_vars

C29_Witness ==
    \E t \in Tasks :
        /\ op[t] = "query_all" /\ Returned(t)
        /\ Len(got[t]) = 2
        /\ ~ got[t][1].bytes.wf /\ got[t][2].bytes.wf
        /\ res[t] = Ok(<<got[t][2].bytes.pkt>>)

\* the same receive outcome, had the datagram come from the remote endpoint
AsFromRemote(x) == IF x.kind = "dgram" THEN [x EXCEPT !.src = "remote"] ELSE x

\* C30: the outcome of query and query_all does not depend on who sent the
\* datagrams received: what the call returns or collects for a datagram is
\* what it returns or collects for the same bytes sent by the remote
\* endpoint, so the reply of a query may be a datagram from another sender.
C30_SourceIgnored ==
    /\ [](\A t \in Queries :
             (Returned(t) /\ got[t] # <<>>) =>
                 res[t] = IF got[t][1].bytes.wf
                          THEN FromOscI32(got[t][1].bytes.pkt)
                          ELSE Err("OscEncode"))
    /\ [][\A t \in Tasks :
             LET x == RecvOutcome(queue[cli[t]]) IN
             /\ (op[t] \in {"query", "test_connection"} /\ pc[t] = "recv"
                   /\ pc'[t] = "done") =>
                   res'[t] = OpResult(op[t], AsFromRemote(x))
             /\ (op[t] = "query_all" /\ pc[t] = "recv"
                   /\ queue[cli[t]] # <<>> /\ x.kind = "dgram"
                   /\ queue'[cli[t]] = Tail(queue[cli[t]])) =>
                   /\ pc'[t] = "recv"
                   /\ responses'[t] = Collect(responses[t], AsFromRemote(x))]_vars

C30_Witness ==
    \E t \in Queries :
        /\ Returned(t) /\ res[t].tag = "Ok"
        /\ got[t][1].src = "other"
        /\ res[t].val = clients[cli[t]].port

====
